---- MODULE Spec2Model ----
(***************************************************************************)
(* Queue manager of smart-download: the discovery loop, the worker pool,   *)
(* the per-job processing and the job store they write to.                 *)
(*   internal/daemon/server.go          QueueManager                       *)
(*   internal/repository/sqlite (download repository)   the job store      *)
(***************************************************************************)
EXTENDS Naturals, Integers, Sequences, FiniteSets, Bags, TLC

\* ------------------------------------------------------------------ bounds
\* Number of job rows in the store.
NumJobs == 2
\* Largest worker count handed to NewQueueManager.
MaxWorkers == 2
\* Last value of the wall clock (seconds).
MaxTime == 2

Jobs == 1..NumJobs

\* ------------------------------------------------------------ domain values
StatusPending == "pending"
StatusDownloading == "downloading"
StatusProcessing == "processing"
StatusCompleted == "completed"
StatusFailed == "failed"

DownloadStatus ==
  {StatusPending, StatusDownloading, StatusProcessing, StatusCompleted, StatusFailed}

\* SQL NULL of completed_at.
NULL == 0

\* Paths and error texts the external tools hand back.
AcquiredPath == "acquired"
ProcessedPath == "processed"
\* err.Error() of a failed Download, and of a failed Process: the tool exited
\* with an error, or was killed when the context was cancelled.
DownloadError(res) ==
  IF res = "killed" THEN "yt-dlp failed: signal: killed" ELSE "yt-dlp failed: exit status 1"
ProcessError(res) ==
  IF res = "killed" THEN "convert to whatsapp mp4: signal: killed"
  ELSE "convert to whatsapp mp4: exit status 1"

\* fmt.Sprintf("post-processing: %v", err)
PostProcessingError(err) == "post-processing: " \o err

\* The option bags a request can carry that the queue manager tells apart:
\* none, audio only, a clip, a GIF, and audio only together with a clip and a GIF.
OptionsOf(k) ==
  [AudioOnly |-> (k = 1 \/ k = 4),
   ClipStart |-> IF k = 2 \/ k = 4 THEN "10" ELSE "",
   ClipEnd |-> IF k = 2 \/ k = 4 THEN "00:00:30" ELSE "",
   ConvertToGIF |-> (k = 3 \/ k = 4)]

\* The requests of a run: every option bag occurs at every place of the queue.
Requests == { [j \in Jobs |-> OptionsOf((j + r) % 5)] : r \in 0..4 }

\* What the inspection of an acquired file can report.
Inspections == {"compatible", "incompatible", "error"}

VARIABLES
  status,         \* downloads.status
  output_path,    \* downloads.output_path ("" is NULL)
  error_message,  \* downloads.error_message ("" is NULL)
  completed_at,   \* downloads.completed_at (NULL or a time)
  options,        \* downloads.options, fixed at creation
  workers,        \* q.workers, the capacity of q.workerPool
  workerPool,     \* len(q.workerPool): slots taken
  wg,             \* q.wg counter
  ctxDone,        \* q.ctx has been cancelled
  loopPc,         \* where processLoop stands
  pending,        \* the rest of the list checkPendingDownloads iterates over
  running,        \* bag of processDownload goroutines
  stopPc,         \* where the caller of Stop stands
  now,            \* time.Now().Unix()
  storeFaulty,    \* whether the store may fail a call of this run
  procOptions,    \* post-processing of one file: the options of its job
  inputPath,      \* the path Download returned (inputPath of Process)
  currentPath,    \* currentPath of Process
  fileInfo,       \* what ffprobe reports of the acquired file (VideoInfo)
  files,          \* paths that exist on disk
  procPc,         \* where the post-processing of the file stands
  ran,            \* the calls and external tools run so far, in order
  result,         \* what the post-processing returned: a path, or an error
  cmd,            \* the last ffmpeg command of Process: tool, input file, options
  dlJob,          \* two concurrent calls of Download: the job of each call
  dlPc,           \* where each call of Download stands
  dlResult,       \* what each call of Download returned
  dir,            \* the files of each platform directory
  mtime,          \* the modification time the next written file gets
  response,       \* the Response of the last add request
  statsPc,        \* where a call of GetStats stands
  stats,          \* the map GetStats is filling, or what it returned
  gifInput,       \* two concurrent calls of ConvertToGIF: the input of each call
  gifPc,          \* where each call of ConvertToGIF stands
  palette,        \* tempDir/palette.png: the input it was made from, or "" (no file)
  gifResult,      \* what each call of ConvertToGIF returned
  accounts,       \* the rows of the table accounts: (platform, name)
  is_active,      \* accounts.is_active, as committed
  txPc,           \* where a call of SetActive stands
  txArgs,         \* the platform and name SetActive was called with
  txActive,       \* is_active as the open transaction sees it
  txResult,       \* the error SetActive returned ("" is nil)
  got             \* the account the last GetActive returned

storeVars == <<status, output_path, error_message, completed_at, options>>
pipeVars == <<procOptions, inputPath, currentPath, fileInfo, files, procPc, ran, result,
              cmd>>
queueVars == <<status, output_path, error_message, completed_at, options, workerPool,
               wg, ctxDone, loopPc, pending, running, stopPc, now>>
\* The queue manager without the rows of the store.
engineVars == <<workerPool, wg, ctxDone, loopPc, pending, running, stopPc, now>>
\* What no step of the queue manager changes.
dispatchVars == <<dlJob, dlPc, dlResult, dir, mtime>>
admitVars == <<response>>
statsVars == <<statsPc, stats>>
gifVars == <<gifInput, gifPc, palette, gifResult>>
accountVars == <<accounts, is_active, txPc, txArgs, txActive, txResult, got>>
envVars == <<workers, storeFaulty, pipeVars, dispatchVars, admitVars, statsVars, gifVars,
             accountVars>>
\* What no step of the post-processing of a file changes, the store apart.
pipeFrame == <<engineVars, workers, storeFaulty, dispatchVars, admitVars, statsVars,
               gifVars, accountVars>>
vars == <<status, output_path, error_message, completed_at, options, workers, workerPool,
          wg, ctxDone, loopPc, pending, running, stopPc, now, envVars>>

\* ------------------------------------------------------------------ store

\* Outcomes of a store call made with q.ctx: database/sql refuses a call whose
\* context is already cancelled; otherwise the call succeeds, or fails when
\* the store is faulty.
StoreOutcomes == IF ctxDone THEN {FALSE} ELSE IF storeFaulty THEN {TRUE, FALSE} ELSE {TRUE}

\* completedAt of UpdateStatus: time.Now() for a terminal status, else nil.
CompletedAtFor(st) ==
  IF st = StatusCompleted \/ st = StatusFailed THEN now ELSE NULL

\* Variant of UpdateStatus that leaves error_message alone when handed an
\* empty message.
UpdateStatusKeepsMessage(id, st, errMsg) ==
  /\ status' = [status EXCEPT ![id] = st]
  /\ error_message' = IF errMsg = "" THEN error_message
                       ELSE [error_message EXCEPT ![id] = errMsg]
  /\ completed_at' = [completed_at EXCEPT ![id] = CompletedAtFor(st)]
  /\ UNCHANGED <<output_path, options>>

\* UPDATE downloads SET status = ?, error_message = ?, completed_at = ? WHERE id = ?
UpdateStatus(id, st, errMsg) ==
  /\ status' = [status EXCEPT ![id] = st]
  /\ error_message' = [error_message EXCEPT ![id] = errMsg]
  /\ completed_at' = [completed_at EXCEPT ![id] = CompletedAtFor(st)]
  /\ UNCHANGED <<output_path, options>>

\* UPDATE downloads SET output_path = ? WHERE id = ?
UpdateOutputPath(id, path) ==
  /\ output_path' = [output_path EXCEPT ![id] = path]
  /\ UNCHANGED <<status, error_message, completed_at, options>>

\* SELECT * FROM downloads WHERE status = ? ORDER BY created_at ASC
\* (rows are created in id order).
RECURSIVE GetByStatusFrom(_, _)
GetByStatusFrom(st, id) ==
  IF id > NumJobs THEN <<>>
  ELSE IF status[id] = st THEN <<id>> \o GetByStatusFrom(st, id + 1)
  ELSE GetByStatusFrom(st, id + 1)

GetByStatus(st) == GetByStatusFrom(st, 1)

GetPending == GetByStatus(StatusPending)

\* ------------------------------------------------------------------ files

\* A path: what precedes the extension (strings.TrimSuffix(path, ext)) and the
\* extension without its dot (filepath.Ext).
Path(base, ext) == [base |-> base, ext |-> ext]
NoPath == Path("", "")

\* A path as the store holds it.
PathName(path) == path.base \o "." \o path.ext

\* VideoInfo as GetVideoInfo fills it from the streams ffprobe lists: the
\* audio codec is set only when there is an audio stream.
VideoCodecs == {"h264", "vp9", "gif"}
AudioCodecs == {"aac", "opus"}
Heights == {720, 1080, 1081}
VideoInfos ==
  { [VideoCodec |-> v, AudioCodec |-> IF h THEN a ELSE "", HasAudio |-> h, Height |-> y] :
      v \in VideoCodecs, a \in AudioCodecs, h \in BOOLEAN, y \in Heights }

\* Variant of Reasons: the audio codec is looked at whether or not there is
\* an audio stream.
ReasonsRequireAudioCodec(info) ==
  (IF info.VideoCodec # "h264" THEN <<"video codec (needs h264)">> ELSE <<>>)
  \o (IF info.AudioCodec # "aac" THEN <<"audio codec (needs aac)">> ELSE <<>>)
  \o (IF info.Height > 1080 THEN <<"resolution (max 1920x1080)">> ELSE <<>>)

\* The reasons IsWhatsAppCompatible collects.
Reasons(info) ==
  (IF info.VideoCodec # "h264" THEN <<"video codec (needs h264)">> ELSE <<>>)
  \o (IF info.HasAudio /\ info.AudioCodec # "aac" THEN <<"audio codec (needs aac)">> ELSE <<>>)
  \o (IF info.Height > 1080 THEN <<"resolution (max 1920x1080)">> ELSE <<>>)

\* IsWhatsAppCompatible, once GetVideoInfo has returned info.
IsWhatsAppCompatible(info) == ~(Len(Reasons(info)) > 0)

\* Whether the acquired file is WhatsApp compatible.
fileCompatible == IsWhatsAppCompatible(fileInfo)

\* No post-processing is under way.
\* Variant of VideoArgs: the height is not looked at.
VideoArgsCopiesTall(info) ==
  IF info.VideoCodec # "h264"
  THEN <<"-c:v", "libx264", "-preset", "medium", "-crf", "23">>
  ELSE <<"-c:v", "copy">>

\* The options ConvertToWhatsAppMP4 gives ffmpeg for the video stream.
VideoArgs(info) ==
  IF info.Height > 1080
  THEN <<"-vf", "scale=-2:1080", "-c:v", "libx264", "-preset", "medium", "-crf", "23">>
  ELSE IF info.VideoCodec # "h264"
  THEN <<"-c:v", "libx264", "-preset", "medium", "-crf", "23">>
  ELSE <<"-c:v", "copy">>

\* The options ConvertToWhatsAppMP4 gives ffmpeg for the audio stream.
AudioArgs(info) ==
  IF info.HasAudio
  THEN IF info.AudioCodec # "aac" THEN <<"-c:a", "aac", "-b:a", "128k">>
       ELSE <<"-c:a", "copy">>
  ELSE <<>>

\* No ffmpeg command has been run.
NoCmd == [tool |-> "", input |-> NoPath, args |-> <<>>]

PipeIdle ==
  /\ procOptions = [AudioOnly |-> FALSE, ClipStart |-> "", ClipEnd |-> "",
                    ConvertToGIF |-> FALSE, NoConvert |-> FALSE]
  /\ inputPath = NoPath
  /\ currentPath = NoPath
  /\ fileInfo = [VideoCodec |-> "h264", AudioCodec |-> "aac", HasAudio |-> TRUE,
                 Height |-> 720]
  /\ files = {}
  /\ procPc = "idle"
  /\ ran = <<>>
  /\ result = [path |-> NoPath, err |-> ""]
  /\ cmd = NoCmd

\* ---------------------------------------------------------- initial state
\* NewQueueManager and Start, with every job of the store pending. processLoop
\* stands at its select: its first, unconditional call of
\* checkPendingDownloads is the first Tick.
\* The two workers that call Download at the same time, and what the jobs
\* they carry may look like.
Calls == 1..MaxWorkers
Platforms == {"youtube", "instagram"}
Usernames == {"", "ana"}
Titles == {"a", "b"}
Today == "04112026"
DownloadJobs == [Platform : Platforms, Username : Usernames, Title : Titles]
NoFile == [name |-> <<>>, by |-> 0, err |-> ""]

\* No call of Download is being followed.
DispatchIdle ==
  /\ dlJob = [c \in Calls |-> [Platform |-> "youtube", Username |-> "", Title |-> "a"]]
  /\ dlPc = [c \in Calls |-> "idle"]
  /\ dlResult = [c \in Calls |-> NoFile]
  /\ dir = [p \in Platforms |-> {}]
  /\ mtime = 1

\* No add request has been answered, and GetStats is not being called.
NoResponse == [Success |-> FALSE, id |-> 0, Error |-> ""]
AdmitIdle == response = NoResponse
StatsIdle == statsPc = "idle" /\ stats = <<>>

\* No call of ConvertToGIF is being followed, and the table of accounts is
\* empty.
NoGIF == [path |-> "", palette |-> "", err |-> ""]
GIFIdle ==
  /\ gifInput = [c \in Calls |-> ""]
  /\ gifPc = [c \in Calls |-> "idle"]
  /\ palette = ""
  /\ gifResult = [c \in Calls |-> NoGIF]
NoAccount == [platform |-> "", name |-> ""]
AccountIdle ==
  /\ accounts = {}
  /\ is_active = <<>>
  /\ txPc = "idle"
  /\ txArgs = NoAccount
  /\ txActive = <<>>
  /\ txResult = ""
  /\ got = NoAccount

Init ==
  /\ status = [j \in Jobs |-> StatusPending]
  /\ output_path = [j \in Jobs |-> ""]
  /\ error_message = [j \in Jobs |-> ""]
  /\ completed_at = [j \in Jobs |-> NULL]
  /\ options \in Requests
  /\ workers \in 1..MaxWorkers
  /\ workerPool = 0
  /\ wg = 0
  /\ ctxDone = FALSE
  /\ loopPc = "select"
  /\ pending = <<>>
  /\ running = EmptyBag
  /\ stopPc = "idle"
  /\ now = 1
  /\ storeFaulty \in BOOLEAN
  /\ PipeIdle
  /\ DispatchIdle
  /\ AdmitIdle
  /\ StatsIdle
  /\ GIFIdle
  /\ AccountIdle

\* ------------------------------------------------------------ worker pool

\* Variant of SlotFree: the send never finds the channel full.
SlotFreeAlways == TRUE

\* q.workerPool <- struct{}{} can proceed: the channel of capacity workers has room.
SlotFree == workerPool < workers

\* Variant of ReleaseSlot: the slot is kept when the goroutine returns.
ReleaseSlotLeaks(pool) == pool

\* defer func() { <-q.workerPool }()
ReleaseSlot(pool) == pool - 1

Worker(j) == [job |-> j, pc |-> "start"]

Spawn(w) == running (+) SetToBag({w})

\* A goroutine moves on: w becomes v.
Becomes(w, v) == (running (-) SetToBag({w})) (+) SetToBag({v})

\* processDownload returns: the deferred slot release, then wg.Done.
Return(w) ==
  /\ running' = running (-) SetToBag({w})
  /\ workerPool' = ReleaseSlot(workerPool)
  /\ wg' = wg - 1

RunningWorkers == BagToSet(running)

\* ------------------------------------------------------- discovery loop

\* After the select of one list element: on to the next, or back to processLoop.
Advance(rest) ==
  /\ pending' = rest
  /\ loopPc' = IF rest = <<>> THEN "select" ELSE "iter"

\* processLoop takes the ticker case (or makes its first call) and
\* checkPendingDownloads runs up to its for loop.
Tick ==
  /\ loopPc = "select"
  /\ \E ok \in StoreOutcomes :
       LET found == IF ok THEN GetPending ELSE <<>> IN
       Advance(found)
  /\ UNCHANGED <<storeVars, workerPool, wg, ctxDone, running, stopPc, now,
                 envVars>>

\* processLoop takes the case <-q.ctx.Done().
LoopExit ==
  /\ loopPc = "select"
  /\ ctxDone
  /\ loopPc' = "exited"
  /\ UNCHANGED <<storeVars, workerPool, wg, ctxDone, pending, running, stopPc, now,
                 envVars>>

\* The select of checkPendingDownloads, case <-q.ctx.Done(): return.
SelectDone ==
  /\ loopPc = "iter"
  /\ ctxDone
  /\ Advance(<<>>)
  /\ UNCHANGED <<storeVars, workerPool, wg, ctxDone, running, stopPc, now,
                 envVars>>

\* case q.workerPool <- struct{}{}: a slot is taken for the head of the list.
\* Go picks among the ready cases at random, so this case can be taken with
\* the context already cancelled.
SelectSlot ==
  /\ loopPc = "iter"
  /\ SlotFree
  /\ workerPool' = workerPool + 1
  /\ loopPc' = "acquired"
  /\ UNCHANGED <<storeVars, wg, ctxDone, pending, running, stopPc, now,
                 envVars>>

\* q.wg.Add(1); go q.processDownload(dl)
Admit ==
  /\ loopPc = "acquired"
  /\ wg' = wg + 1
  /\ running' = Spawn(Worker(Head(pending)))
  /\ Advance(Tail(pending))
  /\ UNCHANGED <<storeVars, workerPool, ctxDone, stopPc, now, envVars>>

\* Variant of SelectDefault: a job that finds the pool full is given up.
SelectDefaultGivesUp ==
  /\ loopPc = "iter"
  /\ ~ctxDone
  /\ ~SlotFree
  /\ UpdateStatus(Head(pending), StatusFailed, "worker pool full")
  /\ Advance(Tail(pending))
  /\ UNCHANGED <<workerPool, wg, ctxDone, running, stopPc, now, envVars>>

\* Variant of SelectDefault: the select has no default case, so with the pool
\* full the loop waits for a slot or for the cancellation.
SelectWithoutDefault ==
  /\ loopPc = "iter"
  /\ FALSE
  /\ UNCHANGED vars

\* default: the pool is full (no other case is ready), the job waits for the
\* next tick.
SelectDefault ==
  /\ loopPc = "iter"
  /\ ~ctxDone
  /\ ~SlotFree
  /\ Advance(Tail(pending))
  /\ UNCHANGED <<storeVars, workerPool, wg, ctxDone, running, stopPc, now, envVars>>

\* ------------------------------------------------------- processDownload

\* Variant of NeedsProcessing: a file that cannot be inspected is taken to
\* need nothing.
NeedsProcessingTrustsFailure(inspection, opts) ==
  IF opts.ClipStart # "" \/ opts.ClipEnd # "" \/ opts.ConvertToGIF THEN TRUE
  ELSE IF inspection = "error" THEN FALSE
  ELSE inspection # "compatible"

\* The error NeedsProcessing returns next to its answer: nil on every path.
NeedsProcessingErr(inspection, opts) ==
  IF opts.ClipStart # "" \/ opts.ClipEnd # "" \/ opts.ConvertToGIF THEN ""
  ELSE IF inspection = "error" THEN ""
  ELSE ""

\* NeedsProcessing(outputPath, &dl.Options), on what the inspection reports.
NeedsProcessing(inspection, opts) ==
  IF opts.ClipStart # "" \/ opts.ClipEnd # "" \/ opts.ConvertToGIF THEN TRUE
  ELSE IF inspection = "error" THEN TRUE
  ELSE inspection # "compatible"

\* Variant of PostProcessingApplies: the audio-only flag is not looked at.
PostProcessingIgnoresAudioOnly(inspection, opts) ==
  NeedsProcessing(inspection, opts) \/ opts.ClipStart # "" \/ opts.ConvertToGIF

\* The branch of processDownload that runs the pipeline (q.postprocessor is set).
PostProcessingApplies(inspection, opts) ==
  /\ ~opts.AudioOnly
  /\ (NeedsProcessing(inspection, opts) \/ opts.ClipStart # "" \/ opts.ConvertToGIF)

\* An external tool started with q.ctx ends: exec.CommandContext kills it
\* once the context is cancelled, unless it had already ended.
ToolOutcomes == IF ctxDone THEN {"ok", "error", "killed"} ELSE {"ok", "error"}

\* A store write whose error is at most logged.
Try(ok, write) == IF ok THEN write ELSE UNCHANGED storeVars

\* UpdateStatus(q.ctx, dl.ID, StatusDownloading, ""); an error ends the worker.
MarkDownloading(w) ==
  /\ w.pc = "start"
  /\ \E ok \in StoreOutcomes :
       IF ok
       THEN /\ UpdateStatus(w.job, StatusDownloading, "")
            /\ running' = Becomes(w, [w EXCEPT !.pc = "download"])
            /\ UNCHANGED <<workerPool, wg>>
       ELSE /\ Return(w)
            /\ UNCHANGED storeVars
  /\ UNCHANGED <<ctxDone, loopPc, pending, stopPc, now, envVars>>

\* Variant of DownloadFails: the failure takes the manager down with it.
DownloadFailsCrashes(w) ==
  /\ w.pc = "download"
  /\ \E res \in ToolOutcomes \ {"ok"}, ok \in StoreOutcomes :
       Try(ok, UpdateStatus(w.job, StatusFailed, DownloadError(res)))
  /\ Return(w)
  /\ ctxDone' = TRUE
  /\ UNCHANGED <<loopPc, pending, stopPc, now, envVars>>

\* q.downloader.Download(q.ctx, dl) fails: UpdateStatus(..., StatusFailed,
\* err.Error()), its error dropped, and the worker returns.
DownloadFails(w) ==
  /\ w.pc = "download"
  /\ \E res \in ToolOutcomes \ {"ok"}, ok \in StoreOutcomes :
       Try(ok, UpdateStatus(w.job, StatusFailed, DownloadError(res)))
  /\ Return(w)
  /\ UNCHANGED <<ctxDone, loopPc, pending, stopPc, now, envVars>>

\* Download succeeds and the pipeline applies: UpdateStatus(...,
\* StatusProcessing, ""), an error only logged, then Process is called.
MarkProcessing(w) ==
  /\ w.pc = "download"
  /\ "ok" \in ToolOutcomes
  /\ \E inspection \in Inspections, ok \in StoreOutcomes :
       /\ PostProcessingApplies(inspection, options[w.job])
       /\ Try(ok, UpdateStatus(w.job, StatusProcessing, ""))
  /\ running' = Becomes(w, [w EXCEPT !.pc = "process"])
  /\ UNCHANGED <<workerPool, wg, ctxDone, loopPc, pending, stopPc, now,
                 envVars>>

\* Variant of ProcessFails: this exit path returns without the deferred slot
\* release.
ProcessFailsKeepsSlot(w) ==
  /\ w.pc = "process"
  /\ \E res \in ToolOutcomes \ {"ok"}, ok \in StoreOutcomes :
       Try(ok, UpdateStatus(w.job, StatusFailed, PostProcessingError(ProcessError(res))))
  /\ running' = running (-) SetToBag({w})
  /\ wg' = wg - 1
  /\ UNCHANGED <<workerPool, ctxDone, loopPc, pending, stopPc, now, envVars>>

\* q.postprocessor.Process(q.ctx, ...) fails: UpdateStatus(..., StatusFailed,
\* "post-processing: ..."), its error dropped, and the worker returns.
ProcessFails(w) ==
  /\ w.pc = "process"
  /\ \E res \in ToolOutcomes \ {"ok"}, ok \in StoreOutcomes :
       Try(ok, UpdateStatus(w.job, StatusFailed, PostProcessingError(ProcessError(res))))
  /\ Return(w)
  /\ UNCHANGED <<ctxDone, loopPc, pending, stopPc, now, envVars>>

\* Variant of WriteOutputPath: a file that needs no pipeline is stored under
\* the name the pipeline would have given it.
WriteOutputPathRenames(w) ==
  /\ \/ /\ w.pc = "download"
        /\ "ok" \in ToolOutcomes
        /\ \E inspection \in Inspections, ok \in StoreOutcomes :
             /\ ~PostProcessingApplies(inspection, options[w.job])
             /\ Try(ok, UpdateOutputPath(w.job, ProcessedPath))
     \/ /\ w.pc = "process"
        /\ "ok" \in ToolOutcomes
        /\ \E ok \in StoreOutcomes : Try(ok, UpdateOutputPath(w.job, ProcessedPath))
  /\ running' = Becomes(w, [w EXCEPT !.pc = "complete"])
  /\ UNCHANGED <<workerPool, wg, ctxDone, loopPc, pending, stopPc, now,
                 envVars>>

\* UpdateOutputPath(q.ctx, dl.ID, outputPath) with the acquired path (no
\* pipeline) or with the path Process returned; an error is only logged.
WriteOutputPath(w) ==
  /\ \/ /\ w.pc = "download"
        /\ "ok" \in ToolOutcomes
        /\ \E inspection \in Inspections, ok \in StoreOutcomes :
             /\ ~PostProcessingApplies(inspection, options[w.job])
             /\ Try(ok, UpdateOutputPath(w.job, AcquiredPath))
     \/ /\ w.pc = "process"
        /\ "ok" \in ToolOutcomes
        /\ \E ok \in StoreOutcomes : Try(ok, UpdateOutputPath(w.job, ProcessedPath))
  /\ running' = Becomes(w, [w EXCEPT !.pc = "complete"])
  /\ UNCHANGED <<workerPool, wg, ctxDone, loopPc, pending, stopPc, now,
                 envVars>>

\* UpdateStatus(q.ctx, dl.ID, StatusCompleted, ""), then the worker returns
\* (after the notification and the clipboard copy when the write went through).
MarkCompleted(w) ==
  /\ w.pc = "complete"
  /\ \E ok \in StoreOutcomes : Try(ok, UpdateStatus(w.job, StatusCompleted, ""))
  /\ Return(w)
  /\ UNCHANGED <<ctxDone, loopPc, pending, stopPc, now, envVars>>

processDownload ==
  \E w \in RunningWorkers :
    \/ MarkDownloading(w)
    \/ DownloadFails(w)
    \/ MarkProcessing(w)
    \/ ProcessFails(w)
    \/ WriteOutputPath(w)
    \/ MarkCompleted(w)

checkPendingDownloads == Tick \/ SelectDone \/ SelectSlot \/ Admit \/ SelectDefault

\* ------------------------------------------------------------------ Stop

\* q.cancel()
StopCancel ==
  /\ stopPc = "idle"
  /\ stopPc' = "waiting"
  /\ ctxDone' = TRUE
  /\ UNCHANGED <<storeVars, workerPool, wg, loopPc, pending, running, now,
                 envVars>>

\* q.wg.Wait() returns
StopReturn ==
  /\ stopPc = "waiting"
  /\ wg = 0
  /\ stopPc' = "returned"
  /\ UNCHANGED <<storeVars, workerPool, wg, ctxDone, loopPc, pending, running, now,
                 envVars>>

\* The wall clock moves on.
ClockTick ==
  /\ now < MaxTime
  /\ now' = now + 1
  /\ UNCHANGED <<storeVars, workerPool, wg, ctxDone, loopPc, pending, running, stopPc,
                 envVars>>

Next ==
  \/ Tick
  \/ LoopExit
  \/ SelectDone
  \/ SelectSlot
  \/ Admit
  \/ SelectDefault
  \/ \E w \in RunningWorkers : MarkDownloading(w)
  \/ \E w \in RunningWorkers : DownloadFails(w)
  \/ \E w \in RunningWorkers : MarkProcessing(w)
  \/ \E w \in RunningWorkers : ProcessFails(w)
  \/ \E w \in RunningWorkers : WriteOutputPath(w)
  \/ \E w \in RunningWorkers : MarkCompleted(w)
  \/ StopCancel
  \/ StopReturn
  \/ ClockTick

Spec == Init /\ [][Next]_vars

\* A run in which the store never fails and Stop is never called: the ticker
\* keeps firing and every started goroutine keeps being scheduled.
LiveInit == Init /\ ~storeFaulty

LiveNext ==
  \/ Tick
  \/ SelectSlot
  \/ Admit
  \/ SelectDefault
  \/ \E w \in RunningWorkers : MarkDownloading(w)
  \/ \E w \in RunningWorkers : DownloadFails(w)
  \/ \E w \in RunningWorkers : MarkProcessing(w)
  \/ \E w \in RunningWorkers : ProcessFails(w)
  \/ \E w \in RunningWorkers : WriteOutputPath(w)
  \/ \E w \in RunningWorkers : MarkCompleted(w)
  \/ ClockTick

LiveSpec ==
  /\ LiveInit
  /\ [][LiveNext]_vars
  /\ WF_vars(checkPendingDownloads)
  /\ WF_vars(processDownload)

\* ------------------------------------------------------ post-processing
\* The post-processing of one acquired file, as processDownload drives it:
\* the need-check, then the stages of Process, each external tool one step.

\* The clip markers a request can carry: seconds, HH:MM:SS, and a text that
\* is no time.
ClipTimes == {"10", "00:00:30", "abc"}

\* parseTimeToSeconds: the seconds as text, or "" for its error.
parseTimeToSeconds(timeStr) ==
  CASE timeStr = "10" -> "10"
    [] timeStr = "00:00:30" -> "30.000"
    [] OTHER -> ""

\* strings.ReplaceAll(t, ":", "-")
Clean(timeStr) == IF timeStr = "00:00:30" THEN "00-00-30" ELSE timeStr

\* Output path of ClipVideo: base_clip_<start>_<end> with the extension kept.
ClipPath(path, startTime, endTime) ==
  Path(path.base \o "_clip_" \o Clean(startTime) \o "_" \o Clean(endTime), path.ext)

\* Output path of ConvertToGIF: base + ".gif".
GIFPath(path) == Path(path.base, "gif")

\* Output path of ConvertToWhatsAppMP4: base + "_whatsapp.mp4".
WhatsAppPath(path) == Path(path.base \o "_whatsapp", "mp4")

\* os.Remove(path)
Remove(disk, path) == disk \ {path}

\* IsWhatsAppCompatible on the acquired file or on its clip (a stream copy,
\* so with the same codecs and size): ffprobe fails, or the answer.
InspectOutcomes == {"error", IF fileCompatible THEN "compatible" ELSE "incompatible"}

\* A failed ffmpeg run leaves its unfinished output file behind, or nothing.
AfterFailure(disk, out) == {disk, disk \cup {out}}

\* The post-processing ends with a path or with an error.
ReturnPath(path) ==
  /\ procPc' = "returned"
  /\ result' = [path |-> path, err |-> ""]

ReturnError(err) ==
  /\ procPc' = "returned"
  /\ result' = [path |-> NoPath, err |-> err]

\* The job whose file is post-processed.
PipeJob == 1

\* An acquired file and the options of its job, before the need-check: the
\* job's worker has written downloading and Download has returned inputPath.
PipeInit ==
  /\ status = [j \in Jobs |-> IF j = PipeJob THEN StatusDownloading ELSE StatusPending]
  /\ output_path = [j \in Jobs |-> ""]
  /\ error_message = [j \in Jobs |-> ""]
  /\ completed_at = [j \in Jobs |-> NULL]
  /\ options = [j \in Jobs |-> OptionsOf(0)]
  /\ workers = 1
  /\ workerPool = 0
  /\ wg = 0
  /\ ctxDone = FALSE
  /\ loopPc = "select"
  /\ pending = <<>>
  /\ running = EmptyBag
  /\ stopPc = "idle"
  /\ now = 1
  /\ storeFaulty \in BOOLEAN
  /\ procOptions \in [AudioOnly : BOOLEAN, ClipStart : {""} \cup ClipTimes,
                      ClipEnd : {""} \cup ClipTimes, ConvertToGIF : BOOLEAN,
                      NoConvert : BOOLEAN]
  /\ inputPath \in {Path("video", "mp4"), Path("video", "gif")}
  /\ currentPath = NoPath
  /\ fileInfo \in VideoInfos
  /\ (inputPath.ext = "gif") <=> (fileInfo.VideoCodec = "gif")
  /\ inputPath.ext = "gif" => ~fileInfo.HasAudio
  /\ files = {inputPath}
  /\ procPc = "check"
  /\ ran = <<>>
  /\ result = [path |-> NoPath, err |-> ""]
  /\ cmd = NoCmd
  /\ DispatchIdle
  /\ AdmitIdle
  /\ StatsIdle
  /\ GIFIdle
  /\ AccountIdle

\* processDownload, lines 290-304: an audio-only job and a job whose
\* need-check finds nothing to do keep the acquired file; NeedsProcessing
\* inspects the file only when neither clip nor GIF is asked for; before
\* Process is called the status processing is written, an error only logged.
NeedCheck ==
  /\ procPc = "check"
  /\ IF procOptions.AudioOnly
     THEN /\ ReturnPath(inputPath)
          /\ UNCHANGED <<currentPath, ran, storeVars>>
     ELSE \E inspection \in InspectOutcomes :
            LET asked == procOptions.ClipStart # "" \/ procOptions.ClipEnd # ""
                           \/ procOptions.ConvertToGIF
                log == IF asked THEN <<"NeedsProcessing">>
                       ELSE <<"NeedsProcessing", "NeedsProcessing.IsWhatsAppCompatible">> IN
            IF PostProcessingApplies(inspection, procOptions)
            THEN /\ procPc' = "clip"
                 /\ currentPath' = inputPath
                 /\ ran' = log \o <<"Process">>
                 /\ \E ok \in StoreOutcomes :
                      Try(ok, UpdateStatus(PipeJob, StatusProcessing, ""))
                 /\ UNCHANGED result
            ELSE /\ ReturnPath(inputPath)
                 /\ ran' = log
                 /\ UNCHANGED <<currentPath, storeVars>>
  /\ UNCHANGED <<procOptions, inputPath, fileInfo, files, cmd, pipeFrame>>

\* Variant of StageClip: the markers are handed to ffmpeg as they are, and a
\* marker that is no time makes ffmpeg fail after it has opened its output.
StageClipParsesLate ==
  /\ procPc = "clip"
  /\ IF procOptions.ClipStart # "" /\ procOptions.ClipEnd # ""
     THEN LET out == ClipPath(currentPath, procOptions.ClipStart, procOptions.ClipEnd)
              bad == \/ parseTimeToSeconds(procOptions.ClipStart) = ""
                     \/ parseTimeToSeconds(procOptions.ClipEnd) = "" IN
          /\ ran' = Append(ran, "ClipVideo")
          /\ \/ /\ ~bad
                /\ currentPath' = out
                /\ files' = IF out # inputPath THEN Remove(files \cup {out}, inputPath)
                            ELSE files \cup {out}
                /\ procPc' = "gif"
                /\ UNCHANGED result
             \/ /\ files' \in AfterFailure(files, out)
                /\ ReturnError("clip video: ffmpeg clip")
                /\ UNCHANGED currentPath
     ELSE /\ procPc' = "gif"
          /\ UNCHANGED <<currentPath, files, ran, result>>
  /\ UNCHANGED <<procOptions, inputPath, fileInfo, storeVars, pipeFrame>>
  /\ cmd' = IF ran' # ran
            THEN [tool |-> "ClipVideo", input |-> currentPath, args |-> <<"-ss", parseTimeToSeconds(procOptions.ClipStart), "-to",
                                  parseTimeToSeconds(procOptions.ClipEnd), "-c", "copy">>]
            ELSE cmd

\* Process, stage 1: ClipVideo when both markers are set; the original is
\* removed once the clip exists.
StageClip ==
  /\ procPc = "clip"
  /\ IF procOptions.ClipStart # "" /\ procOptions.ClipEnd # ""
     THEN IF parseTimeToSeconds(procOptions.ClipStart) = ""
          THEN /\ ReturnError("clip video: invalid start time")
               /\ UNCHANGED <<currentPath, files, ran>>
          ELSE IF parseTimeToSeconds(procOptions.ClipEnd) = ""
          THEN /\ ReturnError("clip video: invalid end time")
               /\ UNCHANGED <<currentPath, files, ran>>
          ELSE LET out == ClipPath(currentPath, procOptions.ClipStart, procOptions.ClipEnd) IN
               /\ ran' = Append(ran, "ClipVideo")
               /\ \/ /\ currentPath' = out
                     /\ files' = IF out # inputPath THEN Remove(files \cup {out}, inputPath)
                                 ELSE files \cup {out}
                     /\ procPc' = "gif"
                     /\ UNCHANGED result
                  \/ /\ files' \in AfterFailure(files, out)
                     /\ ReturnError("clip video: ffmpeg clip")
                     /\ UNCHANGED currentPath
     ELSE /\ procPc' = "gif"
          /\ UNCHANGED <<currentPath, files, ran, result>>
  /\ UNCHANGED <<procOptions, inputPath, fileInfo, storeVars, pipeFrame>>
  /\ cmd' = IF ran' # ran
            THEN [tool |-> "ClipVideo", input |-> currentPath, args |-> <<"-ss", parseTimeToSeconds(procOptions.ClipStart), "-to",
                                  parseTimeToSeconds(procOptions.ClipEnd), "-c", "copy">>]
            ELSE cmd

\* Variant of StageGIF: the GIF is made from the file Process was given.
StageGIFFromOriginal ==
  /\ procPc = "gif"
  /\ IF procOptions.ConvertToGIF
     THEN LET out == GIFPath(inputPath) IN
          /\ ran' = Append(ran, "ConvertToGIF")
          /\ cmd' = [tool |-> "ConvertToGIF", input |-> inputPath,
                     args |-> <<"fps=15", "scale=480">>]
          /\ \/ /\ out # inputPath
                /\ currentPath' = out
                /\ files' = IF inputPath.ext # "gif" THEN Remove(files \cup {out}, inputPath)
                            ELSE files \cup {out}
                /\ ReturnPath(out)
             \/ /\ files' \in AfterFailure(files, out)
                /\ ReturnError("convert to gif: generate gif")
                /\ UNCHANGED currentPath
     ELSE /\ procPc' = "inspect"
          /\ UNCHANGED <<currentPath, files, ran, result, cmd>>
  /\ UNCHANGED <<procOptions, inputPath, fileInfo, storeVars, pipeFrame>>

\* Variant of StageGIF: after the conversion the pipeline goes on to the
\* compatibility stage.
StageGIFFallsThrough ==
  /\ procPc = "gif"
  /\ IF procOptions.ConvertToGIF
     THEN LET out == GIFPath(currentPath) IN
          /\ ran' = Append(ran, "ConvertToGIF")
          /\ out # currentPath
          /\ currentPath' = out
          /\ files' = IF inputPath.ext # "gif" THEN Remove(files \cup {out}, inputPath)
                      ELSE files \cup {out}
          /\ procPc' = "inspect"
          /\ UNCHANGED result
     ELSE /\ procPc' = "inspect"
          /\ UNCHANGED <<currentPath, files, ran, result>>
  /\ UNCHANGED <<procOptions, inputPath, fileInfo, storeVars, pipeFrame>>
  /\ cmd' = IF ran' # ran
            THEN [tool |-> "ConvertToGIF", input |-> currentPath, args |-> <<"fps=15", "scale=480">>]
            ELSE cmd

\* Process, stage 2: ConvertToGIF of the working file when asked for; on
\* success inputPath is removed unless it ends in ".gif", and Process returns.
\* ffmpeg refuses to write the file it reads, so a working file that already
\* is a .gif makes the conversion fail. The palette file is removed when
\* ConvertToGIF returns.
StageGIF ==
  /\ procPc = "gif"
  /\ IF procOptions.ConvertToGIF
     THEN LET out == GIFPath(currentPath) IN
          /\ ran' = Append(ran, "ConvertToGIF")
          /\ \/ /\ out # currentPath
                /\ currentPath' = out
                /\ files' = IF inputPath.ext # "gif" THEN Remove(files \cup {out}, inputPath)
                            ELSE files \cup {out}
                /\ ReturnPath(out)
             \/ /\ files' \in AfterFailure(files, out)
                /\ ReturnError("convert to gif: generate gif")
                /\ UNCHANGED currentPath
     ELSE /\ procPc' = "inspect"
          /\ UNCHANGED <<currentPath, files, ran, result>>
  /\ UNCHANGED <<procOptions, inputPath, fileInfo, storeVars, pipeFrame>>
  /\ cmd' = IF ran' # ran
            THEN [tool |-> "ConvertToGIF", input |-> currentPath, args |-> <<"fps=15", "scale=480">>]
            ELSE cmd

\* Variant of StageInspect: the file is converted whatever the inspection
\* says.
StageInspectAlwaysNormalizes ==
  /\ procPc = "inspect"
  /\ ran' = Append(ran, "IsWhatsAppCompatible")
  /\ \E inspection \in InspectOutcomes :
       CASE inspection = "error" -> ReturnError("check whatsapp compatibility: ffprobe failed")
         [] OTHER -> procPc' = "normalize" /\ UNCHANGED result
  /\ UNCHANGED <<procOptions, inputPath, currentPath, fileInfo, files, storeVars,
                 cmd, pipeFrame>>

\* Process, stage 3, first half: IsWhatsAppCompatible(currentPath).
StageInspect ==
  /\ procPc = "inspect"
  /\ ran' = Append(ran, "IsWhatsAppCompatible")
  /\ \E inspection \in InspectOutcomes :
       CASE inspection = "error" -> ReturnError("check whatsapp compatibility: ffprobe failed")
         [] inspection = "compatible" -> ReturnPath(currentPath)
         [] OTHER -> procPc' = "normalize" /\ UNCHANGED result
  /\ UNCHANGED <<procOptions, inputPath, currentPath, fileInfo, files, storeVars,
                 cmd, pipeFrame>>

\* Variant of StageNormalize: a failed conversion takes the file it was
\* given with it.
StageNormalizeRollsBack ==
  /\ procPc = "normalize"
  /\ LET out == WhatsAppPath(currentPath) IN
     /\ ran' = Append(ran, "ConvertToWhatsAppMP4")
     /\ \/ /\ currentPath' = out
           /\ files' = IF out # currentPath THEN Remove(files \cup {out}, currentPath)
                       ELSE files \cup {out}
           /\ ReturnPath(out)
        \/ /\ files' = Remove(files, currentPath)
           /\ ReturnError("convert to whatsapp mp4: ffmpeg failed")
           /\ UNCHANGED currentPath
  /\ UNCHANGED <<procOptions, inputPath, fileInfo, storeVars, pipeFrame>>
  /\ cmd' = IF ran' # ran
            THEN [tool |-> "ConvertToWhatsAppMP4", input |-> currentPath,
                  args |-> VideoArgs(fileInfo) \o AudioArgs(fileInfo)]
            ELSE cmd

\* Process, stage 3, second half: ConvertToWhatsAppMP4(currentPath); the
\* file it was made from is removed on success.
StageNormalize ==
  /\ procPc = "normalize"
  /\ LET out == WhatsAppPath(currentPath)
         ffmpeg == [tool |-> "ConvertToWhatsAppMP4", input |-> currentPath,
                    args |-> VideoArgs(fileInfo) \o AudioArgs(fileInfo)] IN
     /\ ran' = Append(ran, "ConvertToWhatsAppMP4")
     /\ \/ /\ currentPath' = out
           /\ files' = IF out # currentPath THEN Remove(files \cup {out}, currentPath)
                       ELSE files \cup {out}
           /\ cmd' = ffmpeg
           /\ ReturnPath(out)
        \/ /\ files' \in AfterFailure(files, out)
           /\ cmd' = ffmpeg
           /\ ReturnError("convert to whatsapp mp4: ffmpeg failed")
           /\ UNCHANGED currentPath
        \/ /\ ReturnError("convert to whatsapp mp4: get video info")
           /\ UNCHANGED <<currentPath, files, cmd>>
  /\ UNCHANGED <<procOptions, inputPath, fileInfo, storeVars, pipeFrame>>

Process == StageClip \/ StageGIF \/ StageInspect \/ StageNormalize

\* processDownload, lines 305-310: Process returned an error; the status
\* failed is written with the qualified message, its error dropped.
ReportFailed ==
  /\ procPc = "returned"
  /\ result.err # ""
  /\ \E ok \in StoreOutcomes :
       Try(ok, UpdateStatus(PipeJob, StatusFailed, PostProcessingError(result.err)))
  /\ procPc' = "done"
  /\ UNCHANGED <<procOptions, inputPath, currentPath, fileInfo, files, ran, result,
                 cmd, pipeFrame>>

\* processDownload, lines 317-320: the final path is stored, an error only
\* logged.
ReportPath ==
  /\ procPc = "returned"
  /\ result.err = ""
  /\ \E ok \in StoreOutcomes :
       Try(ok, UpdateOutputPath(PipeJob, PathName(result.path)))
  /\ procPc' = "complete"
  /\ UNCHANGED <<procOptions, inputPath, currentPath, fileInfo, files, ran, result,
                 cmd, pipeFrame>>

\* processDownload, lines 322-326: the status completed is written.
ReportCompleted ==
  /\ procPc = "complete"
  /\ \E ok \in StoreOutcomes : Try(ok, UpdateStatus(PipeJob, StatusCompleted, ""))
  /\ procPc' = "done"
  /\ UNCHANGED <<procOptions, inputPath, currentPath, fileInfo, files, ran, result,
                 cmd, pipeFrame>>

PipeNext ==
  \/ NeedCheck
  \/ StageClip
  \/ StageGIF
  \/ StageInspect
  \/ StageNormalize
  \/ ReportFailed
  \/ ReportPath
  \/ ReportCompleted

PipeSpec == PipeInit /\ [][PipeNext]_vars

\* Process as a function: what a call Process(path, opts) on the disk `disk`
\* can leave behind when the inspection of stage 3 reports `inspection`.
\* Each outcome is the returned path, the error and the files on disk.
Outcome(path, err, disk) == [path |-> path, err |-> err, files |-> disk]

\* Variant of Stage3Results: the file is converted whatever the inspection
\* says.
Stage3ResultsAlwaysConverts(cur, inspection, disk) ==
  IF inspection = "error"
  THEN {Outcome(NoPath, "check whatsapp compatibility: ffprobe failed", disk)}
  ELSE LET out == WhatsAppPath(cur) IN
       {Outcome(out, "", IF out # cur THEN Remove(disk \cup {out}, cur) ELSE disk \cup {out})}

\* Stage 3, lines 445-463.
Stage3Results(cur, inspection, disk) ==
  CASE inspection = "error" ->
         {Outcome(NoPath, "check whatsapp compatibility: ffprobe failed", disk)}
    [] inspection = "compatible" -> {Outcome(cur, "", disk)}
    [] OTHER ->
         LET out == WhatsAppPath(cur) IN
         {Outcome(out, "", IF out # cur THEN Remove(disk \cup {out}, cur) ELSE disk \cup {out})}
           \cup {Outcome(NoPath, "convert to whatsapp mp4: ffmpeg failed", f) :
                   f \in AfterFailure(disk, out)}
           \cup {Outcome(NoPath, "convert to whatsapp mp4: get video info", disk)}

\* Stage 2, lines 427-443, and what follows it.
Stage2Results(path, cur, opts, inspection, disk) ==
  IF opts.ConvertToGIF
  THEN LET out == GIFPath(cur) IN
       (IF out # cur
        THEN {Outcome(out, "", IF path.ext # "gif" THEN Remove(disk \cup {out}, path)
                               ELSE disk \cup {out})}
        ELSE {})
         \cup {Outcome(NoPath, "convert to gif: generate gif", f) :
                 f \in AfterFailure(disk, out)}
  ELSE Stage3Results(cur, inspection, disk)

\* Stage 1, lines 415-425, and what follows it.
ProcessResults(path, opts, inspection, disk) ==
  IF opts.ClipStart # "" /\ opts.ClipEnd # ""
  THEN IF parseTimeToSeconds(opts.ClipStart) = ""
       THEN {Outcome(NoPath, "clip video: invalid start time", disk)}
       ELSE IF parseTimeToSeconds(opts.ClipEnd) = ""
       THEN {Outcome(NoPath, "clip video: invalid end time", disk)}
       ELSE LET out == ClipPath(path, opts.ClipStart, opts.ClipEnd) IN
            Stage2Results(path, out, opts, inspection,
                          IF out # path THEN Remove(disk \cup {out}, path)
                          ELSE disk \cup {out})
              \cup {Outcome(NoPath, "clip video: ffmpeg clip", f) :
                      f \in AfterFailure(disk, out)}
  ELSE Stage2Results(path, path, opts, inspection, disk)

\* ------------------------------------------------ concurrent Download
\*
\* YtDlp.Download called by two workers at once, each for its own job. A
\* file name is the sequence of the parts that "_" separates; every file
\* has the extension the merge format gives it.

\* generateFilename: the base pattern handed to yt-dlp's -o.
generateFilename(dl) ==
  IF dl.Platform = "youtube"
  THEN <<dl.Platform, Today, "%(title)s">>
  ELSE <<dl.Platform, IF dl.Username = "" THEN "user" ELSE dl.Username, Today>>

\* The name yt-dlp writes for the pattern: its output template filled in.
OutputName(dl) ==
  [i \in 1..Len(generateFilename(dl)) |->
     IF generateFilename(dl)[i] = "%(title)s" THEN dl.Title ELSE generateFilename(dl)[i]]

\* strings.Contains(entry.Name(), basePattern)
Contains(name, basePattern) == name = basePattern

\* strings.HasPrefix(entry.Name(), strings.Split(basePattern, "_")[0])
HasPrefix(name, basePattern) == name[1] = basePattern[1]

\* The entries findDownloadedFile considers, and the newest of them.
Matching(entries, basePattern) ==
  {e \in entries : Contains(e.name, basePattern) \/ HasPrefix(e.name, basePattern)}
Newest(entries) == CHOOSE e \in entries : \A o \in entries : o.mtime <= e.mtime

\* findDownloadedFile(platformDir, filenameBase), for the call c.
findDownloadedFile(entries, basePattern, c) ==
  LET found == Matching(entries, basePattern) IN
  IF found = {} THEN [name |-> <<>>, by |-> 0, err |-> "no file found matching pattern"]
  ELSE [name |-> Newest(found).name, by |-> Newest(found).by, err |-> ""]

\* Two workers are about to call Download, each with a job of its own; the
\* platform directories are empty or hold a file of an earlier day.
DispatchInit ==
  /\ status = [j \in Jobs |-> StatusDownloading]
  /\ output_path = [j \in Jobs |-> ""]
  /\ error_message = [j \in Jobs |-> ""]
  /\ completed_at = [j \in Jobs |-> NULL]
  /\ options = [j \in Jobs |-> OptionsOf(0)]
  /\ workers = MaxWorkers
  /\ workerPool = 0
  /\ wg = 0
  /\ ctxDone = FALSE
  /\ loopPc = "select"
  /\ pending = <<>>
  /\ running = EmptyBag
  /\ stopPc = "idle"
  /\ now = 1
  /\ storeFaulty = FALSE
  /\ PipeIdle
  /\ dlJob \in [Calls -> DownloadJobs]
  /\ dlPc = [c \in Calls |-> "start"]
  /\ dlResult = [c \in Calls |-> NoFile]
  /\ dir \in [Platforms -> {{}, {[name |-> <<"old">>, mtime |-> 0, by |-> 0]}}]
  /\ mtime = 1
  /\ AdmitIdle
  /\ StatsIdle
  /\ GIFIdle
  /\ AccountIdle

dispatchFrame == <<storeVars, engineVars, workers, storeFaulty, pipeVars, admitVars,
                   statsVars, gifVars, accountVars>>

\* Download, lines 183-226: yt-dlp runs and exits 0. It wrote its output
\* file into the platform directory; where a file of that name was already
\* there it either replaced it or took the download for done and left it.
RunYtDlp(c) ==
  /\ dlPc[c] = "start"
  /\ LET p == dlJob[c].Platform
         name == OutputName(dlJob[c])
         others == {e \in dir[p] : e.name # name} IN
     \/ /\ dir' = [dir EXCEPT ![p] = others \cup {[name |-> name, mtime |-> mtime, by |-> c]}]
        /\ mtime' = mtime + 1
     \/ /\ \E e \in dir[p] : e.name = name
        /\ UNCHANGED <<dir, mtime>>
  /\ dlPc' = [dlPc EXCEPT ![c] = "ran"]
  /\ UNCHANGED <<dlJob, dlResult, dispatchFrame>>

\* Download, lines 224-229: yt-dlp fails; the error is returned.
YtDlpFails(c) ==
  /\ dlPc[c] = "start"
  /\ dlPc' = [dlPc EXCEPT ![c] = "returned"]
  /\ dlResult' = [dlResult EXCEPT ![c] = [name |-> <<>>, by |-> 0, err |-> "yt-dlp failed"]]
  /\ UNCHANGED <<dlJob, dir, mtime, dispatchFrame>>

\* Download, lines 231-238: the file is looked up and its path returned.
FindFile(c) ==
  /\ dlPc[c] = "ran"
  /\ dlPc' = [dlPc EXCEPT ![c] = "returned"]
  /\ dlResult' = [dlResult EXCEPT ![c] =
                    findDownloadedFile(dir[dlJob[c].Platform], generateFilename(dlJob[c]), c)]
  /\ UNCHANGED <<dlJob, dir, mtime, dispatchFrame>>

Download(c) == RunYtDlp(c) \/ YtDlpFails(c) \/ FindFile(c)

DispatchNext == \E c \in Calls : Download(c)

DispatchSpec == DispatchInit /\ [][DispatchNext]_vars

\* The queue manager with a loop goroutine that keeps being scheduled and a
\* select that picks every ready case sooner or later (Go chooses among the
\* ready cases at random). Nothing is assumed of the workers: a worker may
\* hold its slot for ever.
LoopSpec ==
  /\ Init
  /\ [][Next]_vars
  /\ WF_vars(checkPendingDownloads)
  /\ SF_vars(LoopExit)

\* ---------------------------------------------- concurrent ConvertToGIF
\*
\* FFmpegProcessor.ConvertToGIF called by two workers at once on the one
\* processor of the daemon: both use the palette file tempDir/palette.png.

GIFInputs == {"a.mp4", "b.mp4", "c.mp4"}

\* Two workers are about to convert the files of their jobs.
GIFInit ==
  /\ status = [j \in Jobs |-> StatusProcessing]
  /\ output_path = [j \in Jobs |-> ""]
  /\ error_message = [j \in Jobs |-> ""]
  /\ completed_at = [j \in Jobs |-> NULL]
  /\ options = [j \in Jobs |-> OptionsOf(3)]
  /\ workers = MaxWorkers
  /\ workerPool = 0
  /\ wg = 0
  /\ ctxDone = FALSE
  /\ loopPc = "select"
  /\ pending = <<>>
  /\ running = EmptyBag
  /\ stopPc = "idle"
  /\ now = 1
  /\ storeFaulty = FALSE
  /\ PipeIdle
  /\ DispatchIdle
  /\ AdmitIdle
  /\ StatsIdle
  /\ gifInput \in [Calls -> GIFInputs]
  /\ gifPc = [c \in Calls |-> "start"]
  /\ palette \in {"", "c.mp4"}
  /\ gifResult = [c \in Calls |-> NoGIF]
  /\ AccountIdle

gifFrame == <<storeVars, engineVars, workers, storeFaulty, pipeVars, dispatchVars,
              admitVars, statsVars, accountVars>>

\* defer os.Remove(palettePath), run when the call returns.
RemovePalette == palette' = ""

\* Pass 1, lines 256-279: ffmpeg writes the palette of this call's input
\* over whatever palette.png held; on its error the call returns.
GeneratePalette(c) ==
  /\ gifPc[c] = "start"
  /\ \/ /\ palette' = gifInput[c]
        /\ gifPc' = [gifPc EXCEPT ![c] = "palette"]
        /\ UNCHANGED gifResult
     \/ /\ RemovePalette
        /\ gifPc' = [gifPc EXCEPT ![c] = "returned"]
        /\ gifResult' = [gifResult EXCEPT ![c] =
                           [path |-> "", palette |-> "", err |-> "generate palette"]]
  /\ UNCHANGED <<gifInput, gifFrame>>

\* Pass 2, lines 281-307: ffmpeg reads the input and palette.png as it is
\* now; without the file it fails; then the call returns and the deferred
\* removal runs.
GenerateGIF(c) ==
  /\ gifPc[c] = "palette"
  /\ \/ /\ palette # ""
        /\ gifResult' = [gifResult EXCEPT ![c] =
                           [path |-> gifInput[c], palette |-> palette, err |-> ""]]
     \/ /\ palette = ""
        /\ gifResult' = [gifResult EXCEPT ![c] =
                           [path |-> "", palette |-> "",
                            err |-> "generate gif: palette.png: No such file or directory"]]
     \/ gifResult' = [gifResult EXCEPT ![c] =
                         [path |-> "", palette |-> "", err |-> "generate gif"]]
  /\ RemovePalette
  /\ gifPc' = [gifPc EXCEPT ![c] = "returned"]
  /\ UNCHANGED <<gifInput, gifFrame>>

ConvertToGIF(c) == GeneratePalette(c) \/ GenerateGIF(c)

GIFNext == \E c \in Calls : ConvertToGIF(c)

GIFSpec == GIFInit /\ [][GIFNext]_vars

\* ---------------------------------------------------------- admission
\*
\* The add request of the socket (Handlers.HandleAdd) and the add command
\* of the client (smd add), next to the running queue manager. A row that
\* has not been created yet has the status NoRow.

NoRow == ""
Rows == {j \in Jobs : status[j] # NoRow}

\* The outcomes of a store call made with the context of a request: the
\* store or the connection of the request can fail at any call.
CallerOutcomes == {TRUE, FALSE}

\* The URLs and the option bags a request can carry.
URLs == {"", "https://example.com/v"}
AddOptions ==
  [AudioOnly : {FALSE}, ClipStart : {"", "10"}, ClipEnd : {"", "00:00:30"},
   ConvertToGIF : BOOLEAN]

\* INSERT INTO downloads ...: the new row gets the next id.
Create(id, opts) ==
  /\ status' = [status EXCEPT ![id] = StatusPending]
  /\ options' = [options EXCEPT ![id] = opts]
  /\ UNCHANGED <<output_path, error_message, completed_at>>

\* Handlers.HandleAdd for a decoded payload.
HandleAddRequest(url, opts) ==
  IF url = ""
  THEN /\ response' = [Success |-> FALSE, id |-> 0, Error |-> "url is required"]
       /\ UNCHANGED storeVars
  ELSE /\ Rows # Jobs
       /\ LET id == CHOOSE j \in Jobs \ Rows : \A o \in Jobs \ Rows : j <= o IN
          \E ok \in CallerOutcomes :
            IF ok
            THEN /\ Create(id, opts)
                 /\ response' = [Success |-> TRUE, id |-> id, Error |-> ""]
            ELSE /\ response' = [Success |-> FALSE, id |-> 0,
                                  Error |-> "create download: insert download"]
                 /\ UNCHANGED storeVars

admitFrame == <<engineVars, workers, storeFaulty, pipeVars, dispatchVars, statsVars,
                gifVars, accountVars>>

\* An add request sent to the socket by any client.
HandleAdd ==
  /\ \E url \in URLs, opts \in AddOptions : HandleAddRequest(url, opts)
  /\ UNCHANGED admitFrame

\* smd add: the command refuses a single clip flag, sends the clip markers
\* only when both are set, and hands the payload to the daemon.
handleAdd ==
  /\ \E clipStart \in {"", "10"}, clipEnd \in {"", "00:00:30"}, convertToGIF \in BOOLEAN :
       /\ ~((clipStart # "" /\ clipEnd = "") \/ (clipStart = "" /\ clipEnd # ""))
       /\ HandleAddRequest("https://example.com/v",
                           [AudioOnly |-> FALSE,
                            ClipStart |-> IF clipStart # "" /\ clipEnd # "" THEN clipStart ELSE "",
                            ClipEnd |-> IF clipStart # "" /\ clipEnd # "" THEN clipEnd ELSE "",
                            ConvertToGIF |-> convertToGIF])
  /\ UNCHANGED admitFrame

\* The daemon has just started on an empty store.
AdmitInit ==
  /\ status = [j \in Jobs |-> NoRow]
  /\ output_path = [j \in Jobs |-> ""]
  /\ error_message = [j \in Jobs |-> ""]
  /\ completed_at = [j \in Jobs |-> NULL]
  /\ options = [j \in Jobs |-> OptionsOf(0)]
  /\ workers = 1
  /\ workerPool = 0
  /\ wg = 0
  /\ ctxDone = FALSE
  /\ loopPc = "select"
  /\ pending = <<>>
  /\ running = EmptyBag
  /\ stopPc = "idle"
  /\ now = 1
  /\ storeFaulty = FALSE
  /\ PipeIdle
  /\ DispatchIdle
  /\ AdmitIdle
  /\ StatsIdle
  /\ GIFIdle
  /\ AccountIdle

AdmitNext == HandleAdd \/ handleAdd \/ Next

AdmitSpec == AdmitInit /\ [][AdmitNext]_vars

\* ----------------------------------------------------------- accounts
\*
\* AccountRepository.SetActive, statement by statement inside its
\* transaction, and GetActive, which reads what is committed.

AccountNames == {"personal", "work"}
AccountKeys == [platform : Platforms, name : AccountNames]

\* Any table of accounts; Create stores the is_active it is handed, so any
\* number of accounts of a platform may be active at first.
AccountInit ==
  /\ status = [j \in Jobs |-> StatusPending]
  /\ output_path = [j \in Jobs |-> ""]
  /\ error_message = [j \in Jobs |-> ""]
  /\ completed_at = [j \in Jobs |-> NULL]
  /\ options = [j \in Jobs |-> OptionsOf(0)]
  /\ workers = 1
  /\ workerPool = 0
  /\ wg = 0
  /\ ctxDone = FALSE
  /\ loopPc = "select"
  /\ pending = <<>>
  /\ running = EmptyBag
  /\ stopPc = "idle"
  /\ now = 1
  /\ storeFaulty = FALSE
  /\ PipeIdle
  /\ DispatchIdle
  /\ AdmitIdle
  /\ StatsIdle
  /\ GIFIdle
  /\ accounts \in SUBSET AccountKeys
  /\ is_active \in [accounts -> BOOLEAN]
  /\ txPc = "idle"
  /\ txArgs = NoAccount
  /\ txActive = <<>>
  /\ txResult = ""
  /\ got = NoAccount

accountFrame == <<storeVars, engineVars, workers, storeFaulty, pipeVars, dispatchVars,
                  admitVars, statsVars, gifVars>>

\* SELECT * FROM accounts WHERE platform = ? AND is_active = 1 LIMIT 1: the
\* rows the query may return.
ActiveRows(platform) == {a \in accounts : a.platform = platform /\ is_active[a]}

\* GetActive(ctx, platform): one of the active rows, or nil.
GetActive ==
  /\ \E platform \in Platforms :
       IF ActiveRows(platform) = {} THEN got' = NoAccount
       ELSE got' \in ActiveRows(platform)
  /\ UNCHANGED <<accounts, is_active, txPc, txArgs, txActive, txResult, accountFrame>>

\* The deferred tx.Rollback() of a call that returns an error: what the
\* transaction wrote is dropped.
Rollback(err) ==
  /\ txPc' = "returned"
  /\ txResult' = err
  /\ txActive' = <<>>
  /\ UNCHANGED is_active

\* r.db.BeginTxx(ctx, nil)
BeginTxx ==
  /\ txPc \in {"idle", "returned"}
  /\ \E platform \in Platforms, name \in AccountNames, ok \in CallerOutcomes :
       /\ txArgs' = [platform |-> platform, name |-> name]
       /\ IF ok
          THEN /\ txPc' = "begun"
               /\ txActive' = is_active
               /\ txResult' = ""
               /\ UNCHANGED is_active
          ELSE Rollback("begin transaction")
  /\ UNCHANGED <<accounts, got, accountFrame>>

\* Variant of Deactivate: the statement is run on the database itself, not
\* inside the transaction.
DeactivateOutsideTx ==
  /\ txPc = "begun"
  /\ is_active' = [a \in accounts |->
                     IF a.platform = txArgs.platform THEN FALSE ELSE is_active[a]]
  /\ txActive' = is_active'
  /\ txPc' = "deactivated"
  /\ UNCHANGED <<accounts, txArgs, txResult, got, accountFrame>>

\* UPDATE accounts SET is_active = 0 WHERE platform = ?
Deactivate ==
  /\ txPc = "begun"
  /\ \E ok \in CallerOutcomes :
       IF ok
       THEN /\ txActive' = [a \in accounts |->
                              IF a.platform = txArgs.platform THEN FALSE ELSE txActive[a]]
            /\ txPc' = "deactivated"
            /\ UNCHANGED <<is_active, txResult>>
       ELSE Rollback("deactivate accounts")
  /\ UNCHANGED <<accounts, txArgs, got, accountFrame>>

\* Variant of Activate: the row is looked up by its name alone.
ActivateByName ==
  /\ txPc = "deactivated"
  /\ IF \E a \in accounts : a.name = txArgs.name
     THEN /\ txActive' = [a \in accounts |->
                            IF a.name = txArgs.name THEN TRUE ELSE txActive[a]]
          /\ txPc' = "activated"
          /\ UNCHANGED <<is_active, txResult>>
     ELSE Rollback("account not found")
  /\ UNCHANGED <<accounts, txArgs, got, accountFrame>>

\* UPDATE accounts SET is_active = 1, last_used = ? WHERE platform = ? AND
\* name = ?, and the test of the rows it affected.
Activate ==
  /\ txPc = "deactivated"
  /\ \E ok \in CallerOutcomes :
       IF ~ok THEN Rollback("activate account")
       ELSE IF txArgs \in accounts
       THEN /\ txActive' = [txActive EXCEPT ![txArgs] = TRUE]
            /\ txPc' = "activated"
            /\ UNCHANGED <<is_active, txResult>>
       ELSE Rollback("account not found")
  /\ UNCHANGED <<accounts, txArgs, got, accountFrame>>

\* return tx.Commit()
Commit ==
  /\ txPc = "activated"
  /\ \E ok \in CallerOutcomes :
       IF ok
       THEN /\ is_active' = txActive
            /\ txActive' = <<>>
            /\ txPc' = "returned"
            /\ txResult' = ""
       ELSE Rollback("commit")
  /\ UNCHANGED <<accounts, txArgs, got, accountFrame>>

SetActive == BeginTxx \/ Deactivate \/ Activate \/ Commit

AccountNext == SetActive \/ GetActive

AccountSpec == AccountInit /\ [][AccountNext]_vars

\* ------------------------------------------------------------- GetStats
\*
\* QueueManager.GetStats, statement by statement, next to the running queue
\* manager: five counts of the store, then the two reads of the pool.

StatKeys == <<StatusPending, StatusDownloading, StatusProcessing, StatusCompleted,
              StatusFailed>>

\* SELECT COUNT(*) FROM downloads WHERE status = ?
CountByStatus(st) == Cardinality({j \in Jobs : status[j] = st})

statsFrame == <<storeVars, engineVars, workers, storeFaulty, pipeVars, dispatchVars,
                admitVars, gifVars, accountVars>>

\* GetStats is called: stats := make(map[string]int).
GetStatsCall ==
  /\ statsPc = "idle"
  /\ statsPc' = "count"
  /\ stats' = <<>>
  /\ UNCHANGED statsFrame

\* The next CountByStatus and its entry of the map, or the return of its
\* error.
GetStatsCount ==
  /\ statsPc = "count"
  /\ Len(stats) < Len(StatKeys)
  /\ \E ok \in CallerOutcomes :
       IF ok
       THEN /\ stats' = Append(stats, CountByStatus(StatKeys[Len(stats) + 1]))
            /\ UNCHANGED statsPc
       ELSE /\ stats' = <<>>
            /\ statsPc' = "failed"
  /\ UNCHANGED statsFrame

\* Variant of GetStatsWorkers: the busy workers are taken to be the jobs
\* counted as downloading or processing.
GetStatsWorkersFromCounts ==
  /\ statsPc = "count"
  /\ Len(stats) = Len(StatKeys)
  /\ stats' = stats \o <<workers, stats[2] + stats[3]>>
  /\ statsPc' = "returned"
  /\ UNCHANGED statsFrame

\* stats["workers_total"] = q.workers; stats["workers_busy"] =
\* len(q.workerPool); return stats, nil.
GetStatsWorkers ==
  /\ statsPc = "count"
  /\ Len(stats) = Len(StatKeys)
  /\ stats' = stats \o <<workers, workerPool>>
  /\ statsPc' = "returned"
  /\ UNCHANGED statsFrame

GetStats == GetStatsCall \/ GetStatsCount \/ GetStatsWorkers

StatsNext == GetStats \/ Next

\* The queue manager starts on one request; GetStats may be called at any
\* moment of its run.
StatsInit == Init /\ ~storeFaulty /\ options = [j \in Jobs |-> OptionsOf(j % 5)]

StatsSpec == StatsInit /\ [][StatsNext]_vars

\* ----------------------------------------------------------- vocabulary

Active == {StatusDownloading, StatusProcessing}
Terminal == {StatusCompleted, StatusFailed}

\* Jobs whose stored status is downloading or processing.
StoredActive == {j \in Jobs : status[j] \in Active}

\* The goroutines running processDownload for job j, and how many they are.
HeldBy(j) == {w \in RunningWorkers : w.job = j}
WorkersOn(j) == BagCardinality([w \in HeldBy(j) |-> running[w]])

\* A step of goroutine w: it returns, or it moves on to the stage named pc.
Stepped(w) == CopiesIn(w, running') < CopiesIn(w, running)
Returns(w) == running' = running (-) SetToBag({w})
MovesTo(w, pc) == running' = Becomes(w, [w EXCEPT !.pc = pc])

\* The row of job j.
Record(j) == <<status[j], output_path[j], error_message[j], completed_at[j], options[j]>>

\* The calls and tools run so far, and whether Process was entered.
Ran == {ran[i] : i \in 1..Len(ran)}
ProcessCalled == "Process" \in Ran
Returned == procPc \in {"returned", "complete", "done"}
ProcessReturnedPath == Returned /\ ProcessCalled /\ result.err = ""
ProcessReturnedError == Returned /\ ProcessCalled /\ result.err # ""

\* The last call or tool that ran, and the output file of the tool that ran
\* last (none for an inspection).
LastRan == IF ran = <<>> THEN "" ELSE ran[Len(ran)]
LastOutput ==
  CASE LastRan = "ClipVideo" ->
         {ClipPath(currentPath, procOptions.ClipStart, procOptions.ClipEnd)}
    [] LastRan = "ConvertToGIF" -> {GIFPath(currentPath)}
    [] LastRan = "ConvertToWhatsAppMP4" -> {WhatsAppPath(currentPath)}
    [] OTHER -> {}

\* The external transforms and inspections of Process.
Tools == {"ClipVideo", "ConvertToGIF", "IsWhatsAppCompatible", "ConvertToWhatsAppMP4"}

C2_SingleAdmission == \A j \in Jobs : WorkersOn(j) <= 1

\* ------------------------------------------------------------------ C3
\* C3: once a job's stored status is completed or failed, no step changes it.
C3_TerminalAbsorbing ==
  [][\A j \in Jobs : status[j] \in Terminal => status'[j] = status[j]]_vars

\* ------------------------------------------------------------------ C4
\* C4: in every state, output_path is non-empty exactly when the status is
\* completed.
C4_OutputPathIffCompleted ==
  \A j \in Jobs : (output_path[j] # "") <=> (status[j] = StatusCompleted)

\* ------------------------------------------------------------------ C5
\* C5: in every state, error_message is non-empty exactly when the status is
\* failed.
C5_ErrorMessageIffFailed ==
  \A j \in Jobs : (error_message[j] # "") <=> (status[j] = StatusFailed)

\* A job has failed and its reason is stored.
C5_SomeJobFailed ==
  \E j \in Jobs : status[j] = StatusFailed /\ error_message[j] # ""

\* ------------------------------------------------------------------ C6
\* C6: completed_at is NULL while the job is pending, downloading or
\* processing, and once set it is never cleared or overwritten.
C6_CompletedAtSetOnce ==
  /\ [](\A j \in Jobs : status[j] \notin Terminal => completed_at[j] = NULL)
  /\ [][\A j \in Jobs : completed_at[j] # NULL => completed_at'[j] = completed_at[j]]_vars

\* ------------------------------------------------------------------ C7
\* C7: with a store that never fails, no Stop, and ticks and workers that keep
\* running, every pending job eventually is completed or failed.
C7_PendingReachesTerminal ==
  \A j \in Jobs : (status[j] = StatusPending) ~> (status[j] \in Terminal)

\* More jobs than workers, and all of them done.
C7_AllTerminal ==
  /\ workers < NumJobs
  /\ \A j \in Jobs : status[j] \in Terminal

\* ------------------------------------------------------------------ C8
\* C8: once the context is cancelled, no slot is taken for a job any more.
C8_NoAdmissionAfterStop == [][ctxDone => workerPool' <= workerPool]_vars

\* ------------------------------------------------------------------ C9
\* C9: when Stop has returned (in a run whose store never fails on its own),
\* no job is left in downloading or processing.
C9_DrainedOnStop ==
  (stopPc = "returned" /\ ~storeFaulty) => StoredActive = {}

C11_SecondWaitsForFirst ==
  /\ [][(workers = 1 /\ status[2] = StatusPending /\ status'[2] # StatusPending)
          => status[1] \in Terminal]_vars
  /\ [][(/\ workers = 1
         /\ loopPc = "select" /\ loopPc' = "iter"
         /\ status[1] \in Terminal
         /\ status[2] = StatusPending /\ HeldBy(2) = {})
          => workerPool = 0]_vars

\* ----------------------------------------------------------------- C12
\* C12: when the Download or the Process of a job fails, the step changes
\* no other job's row, no other goroutine, and nothing of the discovery loop
\* or of the context, and it frees the worker's slot; and as long as the
\* context is not cancelled the discovery loop has a next step.
C12_FailureIsJobLocal ==
  /\ [](~ctxDone => (loopPc # "exited" /\ ENABLED checkPendingDownloads))
  /\ [][\A w \in RunningWorkers :
          (w.pc \in {"download", "process"} /\ Returns(w))
            => /\ \A k \in Jobs \ {w.job} : Record(k)' = Record(k)
               /\ UNCHANGED <<loopPc, pending, ctxDone, stopPc>>
               /\ workerPool' = workerPool - 1]_vars

\* With one worker: job 1 failed, and job 2 was admitted afterwards and has
\* been completed, in a run that was not stopped.
C12_AdmittedAfterFailure ==
  /\ workers = 1
  /\ ~ctxDone
  /\ status[1] = StatusFailed
  /\ status[2] = StatusCompleted
  /\ completed_at[1] < completed_at[2]

\* ----------------------------------------------------------------- C13
\* C13: when Download returns an error the job's row is left with status
\* failed, the error text as error_message and an empty output_path, the
\* worker returns (Process is not called) and its slot is freed.
C13_DispatchFailureOutcome ==
  [][\A w \in RunningWorkers :
       (w.pc = "download" /\ Returns(w))
         => /\ status'[w.job] = StatusFailed
            /\ error_message'[w.job] \in {DownloadError(res) : res \in {"error", "killed"}}
            /\ output_path'[w.job] = ""
            /\ workerPool' = workerPool - 1]_vars

\* ----------------------------------------------------------------- C14
\* C14: a worker goes on only after its store write went through: Process
\* runs only while the job's stored status is processing, and completed is
\* about to be written only when the output path has been stored.
C14_AbortOnStoreError ==
  \A w \in RunningWorkers :
    /\ w.pc = "process" => status[w.job] = StatusProcessing
    /\ w.pc = "complete" => output_path[w.job] # ""

C16_NoTransformationSkipsProcessing ==
  /\ [][\A w \in RunningWorkers :
          (w.pc = "download" /\ MovesTo(w, "complete"))
            => /\ \/ options[w.job].AudioOnly
                  \/ ~NeedsProcessing("compatible", options[w.job])
               /\ status' = status
               /\ error_message' = error_message
               /\ output_path'[w.job] \in {AcquiredPath, output_path[w.job]}]_vars
  /\ [][\A w \in RunningWorkers :
          (w.pc = "complete" /\ Stepped(w))
            => status'[w.job] \in {StatusCompleted, status[w.job]}]_vars
  /\ [][\A w \in RunningWorkers :
          (w.pc = "download" /\ MovesTo(w, "process"))
            => /\ ~options[w.job].AudioOnly
               /\ status'[w.job] \in {StatusProcessing, status[w.job]}]_vars

\* A job with no option set went from downloading to completed with the
\* acquired file, in a run whose store never failed and with one worker.
C16_PlainJobCompleted ==
  \E j \in Jobs :
    /\ ~storeFaulty /\ workers = 1
    /\ ~options[j].AudioOnly /\ ~options[j].ConvertToGIF /\ options[j].ClipStart = ""
    /\ status[j] = StatusCompleted
    /\ output_path[j] = AcquiredPath

\* ----------------------------------------------------------------- C17
\* C17: Download and Process run at most once for a job: no two goroutines
\* of a job are past their first store write, and Download is not running
\* for a job whose output path (stored after an earlier successful Download)
\* is already there.
C17_NoRetries ==
  \A j \in Jobs :
    /\ BagCardinality([w \in {v \in HeldBy(j) : v.pc # "start"} |-> running[w]]) <= 1
    /\ \A w \in HeldBy(j) : w.pc = "download" => output_path[j] = ""

\* ----------------------------------------------------------------- C18
\* C18: in a Process call with ConvertToGIF set, the compatibility inspection
\* of stage 3 and ConvertToWhatsAppMP4 are never run, and a call that
\* succeeds returns the path of the GIF, which exists.
C18_GIFNeverNormalized ==
  (ProcessCalled /\ procOptions.ConvertToGIF)
    => /\ "IsWhatsAppCompatible" \notin Ran
       /\ "ConvertToWhatsAppMP4" \notin Ran
       /\ procPc \notin {"inspect", "normalize"}
       /\ ProcessReturnedPath
            => /\ result.path = GIFPath(currentPath)
               /\ result.path.ext = "gif"
               /\ result.path \in files
               /\ ran[Len(ran)] = "ConvertToGIF"

\* A GIF was made from the clip of a file that is not compatible.
C18_GIFOfClipReturned ==
  /\ ProcessReturnedPath
  /\ procOptions.ConvertToGIF
  /\ ~fileCompatible
  /\ "ClipVideo" \in Ran
  /\ result.path.ext = "gif"

\* ----------------------------------------------------------------- C19
\* C19: for a job with NoConvert set and neither a clip marker nor the GIF
\* flag, ConvertToWhatsAppMP4 is never run and the path that comes back is
\* the acquired file.
C19_NoConvertHonoured ==
  (/\ procOptions.NoConvert
   /\ procOptions.ClipStart = "" /\ procOptions.ClipEnd = ""
   /\ ~procOptions.ConvertToGIF)
    => /\ "ConvertToWhatsAppMP4" \notin Ran
       /\ procPc # "normalize"
       /\ (Returned /\ result.err = "") => result.path = inputPath

\* ----------------------------------------------------------------- C20
\* C20: after a Process call that succeeded, the only file of the run on
\* disk is the one it returned.
C20_OnlyResultLeft ==
  ProcessReturnedPath => files = {result.path}

C22_AtMostOneIntermediate ==
  /\ [](ProcessReturnedError
          => /\ result.path = NoPath
             /\ currentPath \in files
             /\ Cardinality(files \ {inputPath}) <= 1)
  /\ [][Returned => UNCHANGED <<ran, files, currentPath, result>>]_vars

\* C22 (amended): when a stage of Process fails, Process returns an error and
\* no path, nothing more is run, the output of the last successful stage (or
\* the acquired file when none succeeded) is still on disk, and what is left
\* besides it is at most the unfinished output of the tool that failed.
C22_StageFailureAborts ==
  /\ [](ProcessReturnedError
          => /\ result.path = NoPath
             /\ currentPath \in files
             /\ files \subseteq ({currentPath} \cup LastOutput)
             /\ Cardinality(files \ ({inputPath} \cup LastOutput)) <= 1)
  /\ [][Returned => UNCHANGED <<ran, files, currentPath, result>>]_vars

\* The clip was made, the GIF conversion failed, and both the clip and the
\* unfinished GIF are on disk.
C22_ClipAndUnfinishedGIF ==
  /\ ProcessReturnedError
  /\ "ClipVideo" \in Ran
  /\ LastRan = "ConvertToGIF"
  /\ Cardinality(files) = 2

\* ----------------------------------------------------------------- C23
\* C23: when Process returns an error the job's row is left with status
\* failed, the qualified error text as error_message and an empty
\* output_path, and a failed job is never stored as completed afterwards.
C23_TransformFailureOutcome ==
  /\ [][\A w \in RunningWorkers :
          (w.pc = "process" /\ Returns(w))
            => /\ status'[w.job] = StatusFailed
               /\ error_message'[w.job]
                    \in {PostProcessingError(ProcessError(res)) : res \in {"error", "killed"}}
               /\ output_path'[w.job] = ""]_vars
  /\ [][\A j \in Jobs :
          status[j] = StatusFailed => status'[j] # StatusCompleted]_vars

\* ----------------------------------------------------------------- C24
\* C24: when stage 3 finds the working file compatible, Process returns the
\* path it was working on, no file is created or removed, and
\* ConvertToWhatsAppMP4 is not run.
C24_CompatibleIsNoOp ==
  /\ [][(procPc = "inspect" /\ fileCompatible /\ result'.err = "")
          => /\ procPc' = "returned"
             /\ result'.path = currentPath
             /\ currentPath' = currentPath
             /\ files' = files
             /\ ran' = Append(ran, "IsWhatsAppCompatible")]_vars
  /\ [](fileCompatible
          => /\ procPc # "normalize"
             /\ "ConvertToWhatsAppMP4" \notin Ran)

\* Stage 3 found the clip of a compatible file compatible and returned it.
C24_ClipReturnedUnchanged ==
  /\ ProcessReturnedPath
  /\ fileCompatible
  /\ LastRan = "IsWhatsAppCompatible"
  /\ "ClipVideo" \in Ran
  /\ result.path = ClipPath(inputPath, procOptions.ClipStart, procOptions.ClipEnd)
  /\ files = {result.path}

\* ----------------------------------------------------------------- C25
\* C25: IsWhatsAppCompatible answers true exactly for a file whose video
\* codec is h264, whose audio codec is aac if it has an audio stream, and
\* whose height is at most 1080; and stage 3 acts on that answer.
C25_CompatibilityPredicate ==
  /\ [](\A info \in VideoInfos :
          IsWhatsAppCompatible(info)
            <=> /\ info.VideoCodec = "h264"
                /\ info.HasAudio => info.AudioCodec = "aac"
                /\ info.Height <= 1080)
  /\ [][(procPc = "inspect" /\ procPc' = "normalize")
          => ~(/\ fileInfo.VideoCodec = "h264"
               /\ fileInfo.HasAudio => fileInfo.AudioCodec = "aac"
               /\ fileInfo.Height <= 1080)]_vars
  /\ [][(procPc = "inspect" /\ procPc' = "returned" /\ result'.err = "")
          => /\ fileInfo.VideoCodec = "h264"
             /\ fileInfo.HasAudio => fileInfo.AudioCodec = "aac"
             /\ fileInfo.Height <= 1080]_vars

\* Stage 3 accepted an h264 file of height 1080 that has no audio stream.
C25_SilentFileAccepted ==
  /\ ProcessReturnedPath
  /\ LastRan = "IsWhatsAppCompatible"
  /\ ~fileInfo.HasAudio
  /\ fileInfo.AudioCodec # "aac"
  /\ fileInfo.Height = 1080
  /\ result.path = inputPath

\* ----------------------------------------------------------------- C26
\* C26: NeedsProcessing answers true when a clip marker or the GIF flag is
\* set, when the inspection fails, and when the file is not compatible, and
\* false in the one remaining case; its error is always nil; and the worker
\* leaves Process out only for an audio-only job or on the answer false.
C26_NeedCheckResult ==
  /\ \A inspection \in Inspections :
       /\ NeedsProcessing(inspection, procOptions)
            <=> \/ procOptions.ClipStart # "" \/ procOptions.ClipEnd # ""
                \/ procOptions.ConvertToGIF
                \/ inspection = "error"
                \/ inspection = "incompatible"
       /\ NeedsProcessingErr(inspection, procOptions) = ""
  /\ (Returned /\ ~ProcessCalled /\ ~procOptions.AudioOnly)
       => /\ procOptions.ClipStart = "" /\ procOptions.ClipEnd = ""
          /\ ~procOptions.ConvertToGIF
          /\ fileCompatible
          /\ result.path = inputPath

\* The need-check inspected a compatible file, answered false, and the
\* acquired file was kept without a call of Process.
C26_NothingToDo ==
  /\ Returned
  /\ ~procOptions.AudioOnly
  /\ ran = <<"NeedsProcessing", "NeedsProcessing.IsWhatsAppCompatible">>
  /\ result.path = inputPath

\* ----------------------------------------------------------------- C27
\* C27: when two workers run Download at the same time for two jobs, every
\* call that returns a path returns the path of the file its own yt-dlp run
\* wrote.
C27_DownloadReturnsOwnFile ==
  \A c \in Calls :
    (dlPc[c] = "returned" /\ dlResult[c].err = "")
      => dlResult[c].by = c

\* ----------------------------------------------------------------- C28
\* C28: every row the add request has stored, and so every job a worker
\* holds, has ClipStart and ClipEnd both empty or both set, and no add
\* request answers with success for options that carry exactly one of them.
C28_ClipMarkersPaired ==
  /\ \A j \in Rows : (options[j].ClipStart = "") <=> (options[j].ClipEnd = "")
  /\ \A w \in RunningWorkers :
       (options[w.job].ClipStart = "") <=> (options[w.job].ClipEnd = "")

\* ----------------------------------------------------------------- C29
\* C29: a GetStats call that succeeds returns the five counts, workers_total
\* = q.workers and workers_busy = the slots taken when it reads the pool,
\* and at all times 0 <= slots taken <= q.workers.
C29_StatsReportPool ==
  /\ [](statsPc = "returned"
          => /\ Len(stats) = Len(StatKeys) + 2
             /\ \A i \in 1..Len(StatKeys) : stats[i] \in 0..NumJobs
             /\ stats[Len(StatKeys) + 1] = workers
             /\ stats[Len(StatKeys) + 2] \in 0..stats[Len(StatKeys) + 1])
  /\ [][(statsPc # "returned" /\ statsPc' = "returned")
          => stats'[Len(StatKeys) + 2] = workerPool]_vars
  /\ [](workerPool \in 0..workers)

\* GetStats returned while every slot was taken and a job was pending.
C29_ReportedFullPool ==
  /\ statsPc = "returned"
  /\ stats[Len(StatKeys) + 2] = workers
  /\ workerPool = workers
  /\ stats[1] >= 1

C32_OnlyStateMachineEdges ==
  [][\A j \in Jobs :
       status'[j] # status[j]
         => <<status[j], status'[j]>>
              \in {<<StatusPending, StatusDownloading>>,
                   <<StatusDownloading, StatusProcessing>>,
                   <<StatusDownloading, StatusCompleted>>,
                   <<StatusDownloading, StatusFailed>>,
                   <<StatusProcessing, StatusCompleted>>,
                   <<StatusProcessing, StatusFailed>>}]_vars

\* ----------------------------------------------------------------- C35
\* C35: in every state the slots taken are the running workers plus the
\* admission the loop is in the middle of; every return of a worker gives
\* back exactly one slot; and with no worker running and no admission under
\* way the pool is empty.
C35_NoSlotLeak ==
  /\ [](workerPool = BagCardinality(running) + (IF loopPc = "acquired" THEN 1 ELSE 0))
  /\ []((running = EmptyBag /\ loopPc # "acquired") => workerPool = 0)
  /\ [][\A w \in RunningWorkers : Returns(w) => workerPool' = workerPool - 1]_vars

\* Every job went through a worker, one ended failed and one completed, and
\* the pool is empty again.
C35_PoolEmptyAfterExits ==
  /\ running = EmptyBag
  /\ workerPool = 0
  /\ loopPc = "select"
  /\ \E j \in Jobs : status[j] = StatusFailed
  /\ \E j \in Jobs : status[j] = StatusCompleted

\* ----------------------------------------------------------------- C36
\* C36: in every state after Stop has returned no worker is running, and no
\* worker is started after Stop has returned.
C36_StopIsBarrier ==
  /\ [](stopPc = "returned" => running = EmptyBag)
  /\ [][stopPc = "returned" => BagCardinality(running') <= BagCardinality(running)]_vars

\* ----------------------------------------------------------------- C37
\* C37: the five counts a successful GetStats returns add up to the number
\* of jobs in the store.
C37_CountsAddUp ==
  statsPc = "returned"
    => stats[1] + stats[2] + stats[3] + stats[4] + stats[5] = NumJobs

\* ----------------------------------------------------------------- C33
\* C33: in Process the clip is made before the GIF conversion and before
\* the compatibility check, and only when both markers are set; the stage
\* after a clip works on the clipped file, whose original is gone by then,
\* and the path returned is made from the clip's.
C33_StrictStageOrder ==
  /\ [](\A i, j \in 1..Len(ran) :
          (ran[i] = "ClipVideo" /\ ran[j] \in Tools \ {"ClipVideo"}) => i < j)
  /\ []("ClipVideo" \in Ran
          => procOptions.ClipStart # "" /\ procOptions.ClipEnd # "")
  /\ []((cmd.tool = "ClipVideo") => cmd.input = inputPath)
  /\ []((cmd.tool \in {"ConvertToGIF", "ConvertToWhatsAppMP4"} /\ "ClipVideo" \in Ran)
          => /\ cmd.input = ClipPath(inputPath, procOptions.ClipStart, procOptions.ClipEnd)
             /\ cmd.input # inputPath
             /\ inputPath \notin files)
  /\ []((cmd.tool \in {"ConvertToGIF", "ConvertToWhatsAppMP4"} /\ "ClipVideo" \notin Ran)
          => cmd.input = inputPath)
  /\ []((ProcessReturnedPath /\ "ClipVideo" \in Ran)
          => LET clip == ClipPath(inputPath, procOptions.ClipStart, procOptions.ClipEnd) IN
             result.path \in {clip, GIFPath(clip), WhatsAppPath(clip)})
  /\ [][(procPc = "inspect" /\ "ClipVideo" \in Ran)
          => currentPath = ClipPath(inputPath, procOptions.ClipStart, procOptions.ClipEnd)]_vars

\* A clip was made and then normalized: the conversion read the clip.
C33_ClipThenNormalized ==
  /\ ProcessReturnedPath
  /\ ran = <<"NeedsProcessing", "Process", "ClipVideo", "IsWhatsAppCompatible",
             "ConvertToWhatsAppMP4">>
  /\ cmd.input = ClipPath(inputPath, "10", "00:00:30")
  /\ result.path = WhatsAppPath(cmd.input)

C39_SkippingEqualsRunning ==
  /\ (Returned /\ ProcessCalled)
       => \E inspection \in InspectOutcomes :
            Outcome(result.path, result.err, files)
              \in ProcessResults(inputPath, procOptions, inspection, {inputPath})
  /\ \A inspection \in InspectOutcomes :
       ~NeedsProcessing(inspection, procOptions)
         => ProcessResults(inputPath, procOptions, inspection, {inputPath})
              = {Outcome(inputPath, "", {inputPath})}
  /\ (Returned /\ ~ProcessCalled /\ ~procOptions.AudioOnly)
       => /\ \E inspection \in InspectOutcomes : ~NeedsProcessing(inspection, procOptions)
          /\ Outcome(result.path, result.err, files) = Outcome(inputPath, "", {inputPath})

\* The worker skipped Process on the answer false and stored the acquired
\* file as the job's output.
C39_SkippedAndCompleted ==
  /\ procPc = "done"
  /\ ~ProcessCalled
  /\ ~procOptions.AudioOnly
  /\ status[PipeJob] = StatusCompleted
  /\ output_path[PipeJob] = PathName(inputPath)
  /\ files = {inputPath}

\* ----------------------------------------------------------------- C38
\* C38: when two workers run ConvertToGIF at the same time, the second pass
\* of each conversion reads the palette made from its own input, and no
\* conversion fails because the palette file is gone.
C38_OwnPalette ==
  \A c \in Calls :
    gifPc[c] = "returned"
      => /\ gifResult[c].err = "" => gifResult[c].palette = gifInput[c]
         /\ gifResult[c].err # "generate gif: palette.png: No such file or directory"

\* ----------------------------------------------------------------- C31
\* C31: once SetActive(platform, name) has returned nil, the account
\* (platform, name) is active, no other account of the platform is, GetActive
\* of the platform can only return that account, and the call has changed
\* the flag of no account of another platform.
C31_ActiveSwitch ==
  /\ []((txPc = "returned" /\ txResult = "")
          => /\ txArgs \in accounts
             /\ is_active[txArgs]
             /\ \A a \in accounts : (a.platform = txArgs.platform /\ a # txArgs) => ~is_active[a]
             /\ ActiveRows(txArgs.platform) = {txArgs})
  /\ [][\A a \in accounts : a.platform # txArgs'.platform => is_active'[a] = is_active[a]]_vars
  /\ [][(txPc = "returned" /\ txResult = "" /\ got' # got /\ got'.platform = txArgs.platform)
          => got' = txArgs]_vars

\* SetActive has switched a platform with two accounts, the other platform
\* keeps its two active accounts, and GetActive has returned the new one.
C31_SwitchedAndRead ==
  /\ txPc = "returned" /\ txResult = ""
  /\ accounts = AccountKeys
  /\ got = txArgs
  /\ \A a \in accounts : a.platform # txArgs.platform => is_active[a]

\* ----------------------------------------------------------------- C40
\* C40: the committed is_active flags change only in the step in which
\* SetActive returns nil, and a call that names an account that does not
\* exist ends with an error in a step that changes no flag; so every flag is
\* then as it was before the call.
C40_AllOrNothing ==
  /\ [][is_active' # is_active => (txPc' = "returned" /\ txResult' = "")]_vars
  /\ [][(txPc = "deactivated" /\ txArgs \notin accounts /\ txPc' # txPc)
          => (txPc' = "returned" /\ txResult' # "" /\ is_active' = is_active)]_vars

\* SetActive named an account that does not exist and returned the error;
\* the account of that platform that was active still is.
C40_NotFoundKeepsActive ==
  /\ txPc = "returned"
  /\ txResult = "account not found"
  /\ txArgs \notin accounts
  /\ \E a \in accounts : a.platform = txArgs.platform /\ is_active[a]

====
